---- MODULE Spec2Model ----
(***************************************************************************)
(* Model of alpha_pkg_node.cpp: a single-threaded ROS node whose three     *)
(* subscriber callbacks (blobsCallBack, PointCloud_Callback,               *)
(* Bumper_Callback) write global flags, and whose main loop runs a         *)
(* 4-state switch every iteration and then hands control to the callbacks  *)
(* through ros::spinOnce().                                                *)
(*                                                                         *)
(* Units: velocities are in thousandths (0.15 -> 150).  Depths are in      *)
(* units of 1e-9: min_z is the double 0.7 (700000000) and a point's z is   *)
(* the value of a float, so the float nearest 0.7 is 699999988 and lies    *)
(* below min_z.  goal_x is an exact fraction <<num, den>>.                 *)
(* A for-loop that publishes the same Twist n times appends one entry      *)
(* [cmd, times |-> n] to the published stream.                             *)
(***************************************************************************)
EXTENDS Integers, Sequences, FiniteSets, TLC

\* ---------------------------------------------------------------- bounds
MaxBlobs == 2          \* longest BlobFrame delivered
MaxNear  == 12         \* longest run of near points in a depth frame
MaxOffset == 50        \* largest whole-pixel goal_x given to seek

\* ------------------------------------------------------ program constants
image_height         == 480
image_width          == 640
linear_speed         == 150
angular_speed        == 700
angular_speed_thresh == 300
min_z                == 700000000
colors               == << <<238, 114, 76>>, <<185, 66, 36>> >>
c                    == 1
UINT16               == 65536
retreat_steps        == 40000
rotate_steps         == 40000
advance_steps        == 40000
advance_only_steps   == 100000

VARIABLES state, goal_found_flag, obstacle_found_flag, bumper_flag,
          goal_blob_area, goal_x,
          pc,          \* position of main: "switch", a maneuver loop, "spinOnce"
          published,   \* commands published by the current loop iteration
          area_sum,    \* matched area of the last non-empty frame, before the uint16 store
          last         \* the handler that ran most recently, and its input

vars == <<state, goal_found_flag, obstacle_found_flag, bumper_flag,
          goal_blob_area, goal_x, pc, published, area_sum, last>>

flags == <<goal_found_flag, obstacle_found_flag, bumper_flag, goal_blob_area, goal_x>>

\* ------------------------------------------------------------- arithmetic
Abs(n) == IF n < 0 THEN -n ELSE n

RECURSIVE GCD(_, _)
GCD(a, b) == IF b = 0 THEN a ELSE GCD(b, a % b)

\* the fraction n/d (d > 0) in lowest terms
Frac(n, d) == LET g == GCD(Abs(n), d) IN <<n \div g, d \div g>>

\* n/d rounded toward zero
Trunc(n, d) == IF n >= 0 THEN n \div d ELSE -((-n) \div d)

\* ------------------------------------------------------------ input frames
GoalColor == colors[c + 1]
OtherColor == colors[1]

Blob(col, x, a) == [red |-> col[1], green |-> col[2], blue |-> col[3], x |-> x, area |-> a]

\* areas around both thresholds (3000 = 1500 + 1500, 30720) and one that
\* fills 2^16 pixels; centroids on and just left of the image centre
Blobs == {Blob(GoalColor, 319, 1500), Blob(GoalColor, 320, 30720),
          Blob(GoalColor, 320, 65536), Blob(OtherColor, 320, 30720)}

BlobFrames == {[blob_count |-> Len(bs), blobs |-> bs] :
                 bs \in UNION {[1..n -> Blobs] : n \in 0..MaxBlobs}}

\* A depth frame: `len` consecutive points from index `first` have depth z,
\* every other point of the 640x480 buffer is far away.
FarZ == 3 * min_z
\* float depths: 0.5, the float nearest 0.7 (0.699999988, below the double
\* 0.7), and the next float above it (0.70000005)
half_metre     == 500000000
float_0_7      == 699999988
float_0_7_next == 700000048
RoiFirst == 640 * 180
RoiLast  == 640 * (180 + 239) + 639

Clouds == {[first |-> f, len |-> n, z |-> half_metre] :
             f \in {RoiFirst - 1, RoiLast - 10},
             n \in {0, MaxNear - 1, MaxNear}}
          \cup {[first |-> RoiFirst, len |-> MaxNear, z |-> z] :
                  z \in {float_0_7, float_0_7_next}}

PointZ(cloud, p) == IF p \in cloud.first..(cloud.first + cloud.len - 1) THEN cloud.z ELSE FarZ

BumperMsgs == {[state |-> 0], [state |-> 1]}

\* ------------------------------------------------------- motion primitives
Twist(by, lx, az) == [by |-> by, linear_x |-> lx, angular_z |-> az]

rotate == Twist("rotate", 0, angular_speed)

\* the clamp written without std::abs: angular_control*thresh/angular_control
seek_unsigned ==
  LET num == goal_x[1]
      den == goal_x[2]
      clamp == Abs(num) > (angular_speed_thresh * den * 10) \div (angular_speed * 7)
      angular_control ==
        IF clamp THEN angular_speed_thresh
                 ELSE Trunc(-(num * angular_speed * 7), den * 10)
  IN Twist("seek", (linear_speed * 7) \div 10, angular_control)

seek ==
  LET num == goal_x[1]
      den == goal_x[2]
      \* angular_control = -goal_x*angular_speed*0.7 = -(num*angular_speed*7)/(den*10)
      clamp == Abs(num) > (angular_speed_thresh * den * 10) \div (angular_speed * 7)
      angular_control ==
        IF clamp THEN (IF num > 0 THEN -angular_speed_thresh ELSE angular_speed_thresh)
                 ELSE Trunc(-(num * angular_speed * 7), den * 10)
  IN Twist("seek", (linear_speed * 7) \div 10, angular_control)

advance == Twist("advance", linear_speed, 0)

retreat == Twist("retreat", -linear_speed, 0)

Publish(T, n) == Append(published, [cmd |-> T, times |-> n])

\* ---------------------------------------------------------------- callbacks
\* the callbacks served by a spinner thread of their own, at any time
Dispatching_spinner == pc \in {"switch", "retreat_loop", "rotate_loop", "advance_loop",
                               "advance_only_loop", "spinOnce"}

Dispatching == pc = "spinOnce"

IsGoal(b) == b.red = colors[c + 1][1] /\ b.green = colors[c + 1][2] /\ b.blue = colors[c + 1][3]

\* locals of blobsCallBack after the first i iterations of its loop
RECURSIVE Cumulate(_, _)
Cumulate(blobsIn, i) ==
  IF i = 0 THEN [goal_blob_area |-> 0, goal_sum_x |-> 0, num_goal_blobs |-> 0]
  ELSE LET acc == Cumulate(blobsIn, i - 1)
           b   == blobsIn.blobs[i]
       IN IF IsGoal(b)
          THEN [goal_blob_area |-> (acc.goal_blob_area + b.area) % UINT16,
                goal_sum_x     |-> acc.goal_sum_x + b.area * b.x,
                num_goal_blobs |-> acc.num_goal_blobs + 1]
          ELSE acc

RECURSIVE MatchedArea(_, _)
MatchedArea(blobsIn, i) ==
  IF i = 0 THEN 0
  ELSE MatchedArea(blobsIn, i - 1) + (IF IsGoal(blobsIn.blobs[i]) THEN blobsIn.blobs[i].area ELSE 0)

\* the blob_count test left out: an empty frame runs the accumulation as well
blobsCallBack_unguarded(blobsIn) ==
  /\ pc = "spinOnce"
  /\ last' = [op |-> "blobsCallBack", in |-> blobsIn.blob_count]
  /\ LET acc == Cumulate(blobsIn, blobsIn.blob_count) IN
       /\ goal_blob_area' = acc.goal_blob_area
       /\ area_sum' = MatchedArea(blobsIn, blobsIn.blob_count)
       /\ IF acc.goal_blob_area > 3000
          THEN /\ goal_x' = Frac(acc.goal_sum_x - (image_width \div 2) * acc.goal_blob_area,
                                 acc.goal_blob_area)
               /\ goal_found_flag' = TRUE
          ELSE /\ goal_found_flag' = FALSE
               /\ goal_x' = goal_x
  /\ UNCHANGED <<state, obstacle_found_flag, bumper_flag, pc, published>>

\* the callback left after the reset of line 92, its flag update not yet done
blobsCallBack_torn(blobsIn) ==
  /\ pc = "spinOnce"
  /\ last' = [op |-> "blobsCallBack", in |-> blobsIn.blob_count]
  /\ IF blobsIn.blob_count > 0
     THEN /\ goal_blob_area' = 0
          /\ area_sum' = MatchedArea(blobsIn, blobsIn.blob_count)
          /\ UNCHANGED <<goal_x, goal_found_flag>>
     ELSE UNCHANGED <<goal_blob_area, area_sum, goal_x, goal_found_flag>>
  /\ UNCHANGED <<state, obstacle_found_flag, bumper_flag, pc, published>>

\* the else of line 119 missing: the flag is raised but never lowered
blobsCallBack_sticky(blobsIn) ==
  /\ pc = "spinOnce"
  /\ last' = [op |-> "blobsCallBack", in |-> blobsIn.blob_count]
  /\ IF blobsIn.blob_count > 0
     THEN LET acc == Cumulate(blobsIn, blobsIn.blob_count) IN
          /\ goal_blob_area' = acc.goal_blob_area
          /\ area_sum' = MatchedArea(blobsIn, blobsIn.blob_count)
          /\ IF acc.goal_blob_area > 3000
             THEN /\ goal_x' = Frac(acc.goal_sum_x - (image_width \div 2) * acc.goal_blob_area,
                                    acc.goal_blob_area)
                  /\ goal_found_flag' = TRUE
             ELSE UNCHANGED <<goal_found_flag, goal_x>>
     ELSE UNCHANGED <<goal_blob_area, area_sum, goal_x, goal_found_flag>>
  /\ UNCHANGED <<state, obstacle_found_flag, bumper_flag, pc, published>>

blobsCallBack(blobsIn) ==
  /\ Dispatching
  /\ last' = [op |-> "blobsCallBack", in |-> blobsIn.blob_count]
  /\ IF blobsIn.blob_count > 0
     THEN LET acc == Cumulate(blobsIn, blobsIn.blob_count) IN
          /\ goal_blob_area' = acc.goal_blob_area
          /\ area_sum' = MatchedArea(blobsIn, blobsIn.blob_count)
          /\ IF acc.goal_blob_area > 3000
             THEN /\ goal_x' = Frac(acc.goal_sum_x - (image_width \div 2) * acc.goal_blob_area,
                                    acc.goal_blob_area)
                  /\ goal_found_flag' = TRUE
             ELSE /\ goal_found_flag' = FALSE
                  /\ goal_x' = goal_x
     ELSE UNCHANGED <<goal_blob_area, area_sum, goal_x, goal_found_flag>>
  /\ UNCHANGED <<state, obstacle_found_flag, bumper_flag, pc, published>>

\* PCL_closest_points.size() after the scan of rows 180..419
NearCount(cloud) ==
  Cardinality({p \in cloud.first..(cloud.first + cloud.len - 1) :
                 /\ p >= 640 * (180 + 0) + 0
                 /\ p <= 640 * (180 + 239) + 639
                 /\ PointZ(cloud, p) < min_z})

\* the else-branch clears the flag without looking at bumper_flag
PointCloud_Callback_unguarded(cloud) ==
  /\ pc = "spinOnce"
  /\ last' = [op |-> "PointCloud_Callback", in |-> cloud]
  /\ obstacle_found_flag' = (NearCount(cloud) > 10)
  /\ UNCHANGED <<state, goal_found_flag, bumper_flag, goal_blob_area, goal_x,
                 pc, published, area_sum>>

\* the size test written >= 10
PointCloud_Callback_ge(cloud) ==
  /\ pc = "spinOnce"
  /\ last' = [op |-> "PointCloud_Callback", in |-> cloud]
  /\ IF NearCount(cloud) >= 10
     THEN obstacle_found_flag' = TRUE
     ELSE IF ~bumper_flag THEN obstacle_found_flag' = FALSE
                          ELSE obstacle_found_flag' = obstacle_found_flag
  /\ UNCHANGED <<state, goal_found_flag, bumper_flag, goal_blob_area, goal_x,
                 pc, published, area_sum>>

PointCloud_Callback(cloud) ==
  /\ Dispatching
  /\ last' = [op |-> "PointCloud_Callback", in |-> cloud]
  /\ IF NearCount(cloud) > 10
     THEN obstacle_found_flag' = TRUE
     ELSE IF ~bumper_flag THEN obstacle_found_flag' = FALSE
                          ELSE obstacle_found_flag' = obstacle_found_flag
  /\ UNCHANGED <<state, goal_found_flag, bumper_flag, goal_blob_area, goal_x,
                 pc, published, area_sum>>

\* a release that also lowers obstacle_found_flag
Bumper_Callback_clear(bumper_msg) ==
  /\ pc = "spinOnce"
  /\ last' = [op |-> "Bumper_Callback", in |-> bumper_msg.state]
  /\ IF bumper_msg.state = 1
     THEN bumper_flag' = TRUE /\ obstacle_found_flag' = TRUE
     ELSE bumper_flag' = FALSE /\ obstacle_found_flag' = FALSE
  /\ UNCHANGED <<state, goal_found_flag, goal_blob_area, goal_x, pc, published, area_sum>>

Bumper_Callback(bumper_msg) ==
  /\ Dispatching
  /\ last' = [op |-> "Bumper_Callback", in |-> bumper_msg.state]
  /\ IF bumper_msg.state = 1
     THEN bumper_flag' = TRUE /\ obstacle_found_flag' = TRUE
     ELSE bumper_flag' = FALSE /\ obstacle_found_flag' = obstacle_found_flag
  /\ UNCHANGED <<state, goal_found_flag, goal_blob_area, goal_x, pc, published, area_sum>>

\* ---------------------------------------------------------------- main loop
\* what the switch of this iteration reads
Snapshot == [state |-> state, goal_found |-> goal_found_flag, goal_area |-> goal_blob_area,
             area_sum |-> area_sum, obstacle_found |-> obstacle_found_flag,
             bumper_contact |-> bumper_flag]

Enter(s) == /\ pc = "switch"
            /\ state = s
            /\ last' = [op |-> "tick", in |-> Snapshot]

\* the goal test placed before the obstacle test
case0_goal_first ==
  /\ Enter(0)
  /\ IF goal_found_flag THEN state' = 1 /\ published' = <<>>
     ELSE IF obstacle_found_flag THEN state' = 2 /\ published' = <<>>
     ELSE state' = state /\ published' = <<[cmd |-> rotate, times |-> 1]>>
  /\ pc' = "spinOnce"
  /\ UNCHANGED <<flags, area_sum>>

\* rotate published before the flags are tested
case0_rotate_first ==
  /\ Enter(0)
  /\ published' = <<[cmd |-> rotate, times |-> 1]>>
  /\ IF obstacle_found_flag THEN state' = 2
     ELSE IF goal_found_flag THEN state' = 1
     ELSE state' = state
  /\ pc' = "spinOnce"
  /\ UNCHANGED <<flags, area_sum>>

case0 ==
  /\ Enter(0)
  /\ IF obstacle_found_flag THEN state' = 2 /\ published' = <<>>
     ELSE IF goal_found_flag THEN state' = 1 /\ published' = <<>>
     ELSE state' = state /\ published' = <<[cmd |-> rotate, times |-> 1]>>
  /\ pc' = "spinOnce"
  /\ UNCHANGED <<flags, area_sum>>

\* the lost-goal test placed before the obstacle test
case1_goal_first ==
  /\ Enter(1)
  /\ IF ~goal_found_flag THEN state' = 0 /\ published' = <<>>
     ELSE IF obstacle_found_flag THEN state' = 2 /\ published' = <<>>
     ELSE state' = state /\ published' = <<[cmd |-> seek, times |-> 1]>>
  /\ pc' = "spinOnce"
  /\ UNCHANGED <<flags, area_sum>>

case1 ==
  /\ Enter(1)
  /\ IF obstacle_found_flag THEN state' = 2 /\ published' = <<>>
     ELSE IF ~goal_found_flag THEN state' = 0 /\ published' = <<>>
     ELSE state' = state /\ published' = <<[cmd |-> seek, times |-> 1]>>
  /\ pc' = "spinOnce"
  /\ UNCHANGED <<flags, area_sum>>

case2 ==
  /\ Enter(2)
  /\ IF goal_blob_area * 10 > image_width * image_height
     THEN state' = 3 /\ published' = <<>> /\ pc' = "spinOnce"
     ELSE IF bumper_flag
     THEN state' = state /\ published' = <<>> /\ pc' = "retreat_loop"
     ELSE IF obstacle_found_flag
     THEN state' = state /\ published' = <<[cmd |-> rotate, times |-> 1]>> /\ pc' = "spinOnce"
     ELSE state' = state /\ published' = <<>> /\ pc' = "advance_only_loop"
  /\ UNCHANGED <<flags, area_sum>>

\* the first loop calling advance instead of retreat
retreat_loop_advance ==
  /\ pc = "retreat_loop"
  /\ published' = Publish(advance, retreat_steps)
  /\ pc' = "rotate_loop"
  /\ UNCHANGED <<state, flags, area_sum, last>>

retreat_loop ==
  /\ pc = "retreat_loop"
  /\ published' = Publish(retreat, retreat_steps)
  /\ pc' = "rotate_loop"
  /\ UNCHANGED <<state, flags, area_sum, last>>

rotate_loop ==
  /\ pc = "rotate_loop"
  /\ published' = Publish(rotate, rotate_steps)
  /\ pc' = "advance_loop"
  /\ UNCHANGED <<state, flags, area_sum, last>>

\* the maneuver lowering the flags that started it
advance_loop_reset ==
  /\ pc = "advance_loop"
  /\ published' = Publish(advance, advance_steps)
  /\ state' = 0
  /\ pc' = "spinOnce"
  /\ bumper_flag' = FALSE
  /\ obstacle_found_flag' = FALSE
  /\ UNCHANGED <<goal_found_flag, goal_blob_area, goal_x, area_sum, last>>

advance_loop ==
  /\ pc = "advance_loop"
  /\ published' = Publish(advance, advance_steps)
  /\ state' = 0
  /\ pc' = "spinOnce"
  /\ UNCHANGED <<flags, area_sum, last>>

\* the depth branch running the 40000 steps of the bumper branch
advance_only_loop_short ==
  /\ pc = "advance_only_loop"
  /\ published' = Publish(advance, advance_steps)
  /\ state' = 0
  /\ pc' = "spinOnce"
  /\ UNCHANGED <<flags, area_sum, last>>

\* the depth branch going straight on to state 1 when the goal is in view
advance_only_loop_approach ==
  /\ pc = "advance_only_loop"
  /\ published' = Publish(advance, advance_only_steps)
  /\ state' = (IF goal_found_flag THEN 1 ELSE 0)
  /\ pc' = "spinOnce"
  /\ UNCHANGED <<flags, area_sum, last>>

advance_only_loop ==
  /\ pc = "advance_only_loop"
  /\ published' = Publish(advance, advance_only_steps)
  /\ state' = 0
  /\ pc' = "spinOnce"
  /\ UNCHANGED <<flags, area_sum, last>>

\* state 3 re-testing the area and falling back to state 0
case3_retest ==
  /\ Enter(3)
  /\ state' = (IF goal_blob_area * 10 > image_width * image_height THEN 3 ELSE 0)
  /\ published' = <<>>
  /\ pc' = "spinOnce"
  /\ UNCHANGED <<flags, area_sum>>

\* state 3 left without its break, running into a rotate
case3_rotate ==
  /\ Enter(3)
  /\ state' = 3
  /\ published' = <<[cmd |-> rotate, times |-> 1]>>
  /\ pc' = "spinOnce"
  /\ UNCHANGED <<flags, area_sum>>

case3 ==
  /\ Enter(3)
  /\ state' = 3
  /\ published' = <<>>
  /\ pc' = "spinOnce"
  /\ UNCHANGED <<flags, area_sum>>

\* ros::spinOnce() calls the callbacks of the messages that are waiting
blobs_message == \E blobsIn \in BlobFrames : blobsCallBack(blobsIn)

depth_message == \E cloud \in Clouds : PointCloud_Callback(cloud)

bumper_message == \E bumper_msg \in BumperMsgs : Bumper_Callback(bumper_msg)

loop_rate_sleep ==
  /\ pc = "spinOnce"
  /\ pc' = "switch"
  /\ UNCHANGED <<state, flags, published, area_sum, last>>

Init ==
  /\ state = 0
  /\ goal_found_flag = FALSE
  /\ obstacle_found_flag = FALSE
  /\ bumper_flag = FALSE
  /\ goal_blob_area = 0
  /\ goal_x = <<0, 1>>
  /\ pc = "switch"
  /\ published = <<>>
  /\ area_sum = 0
  /\ last = [op |-> "init", in |-> 0]

Next ==
  \/ case0
  \/ case1
  \/ case2
  \/ retreat_loop
  \/ rotate_loop
  \/ advance_loop
  \/ advance_only_loop
  \/ case3
  \/ blobs_message
  \/ depth_message
  \/ bumper_message
  \/ loop_rate_sleep

Spec == Init /\ [][Next]_vars

\* ------------------------------------------------------------ seek alone
\* goal_x values a matched frame can leave behind, with the area they need:
\* whole pixels up to MaxOffset either side, and fractions just inside, on
\* and just outside the clamp at |goal_x| = 30/49
SeekInputs ==
  {[goal_x |-> <<n, 1>>, area |-> 30720] : n \in (-MaxOffset)..MaxOffset}
  \cup {[goal_x |-> <<n, 5>>, area |-> 30720] : n \in {-3, 3}}
  \cup {[goal_x |-> <<n, 8>>, area |-> 30720] : n \in {-5, 5}}
  \cup {[goal_x |-> <<n, 49>>, area |-> 4900] : n \in {-30, 30}}

InitSeek ==
  /\ state = 1
  /\ goal_found_flag = TRUE
  /\ obstacle_found_flag = FALSE
  /\ bumper_flag = FALSE
  /\ \E i \in SeekInputs : /\ goal_x = i.goal_x
                            /\ goal_blob_area = i.area
                            /\ area_sum = i.area
  /\ pc = "switch"
  /\ published = <<>>
  /\ last = [op |-> "init", in |-> 0]

NextSeek ==
  \/ case1
  \/ loop_rate_sleep

SpecSeek == InitSeek /\ [][NextSeek]_vars

\* ------------------------------------------------------- malformed frames
\* Neither callback compares an index with the size of the vector it reads.
\* A read past the end is undefined: the process may die on it ("crashed")
\* or go on with whatever the memory holds.

\* depth frames whose buffer ends before the last index scanned; all the
\* points they do hold are far away
ShortClouds == {[first |-> RoiFirst, len |-> 0, z |-> half_metre, size |-> n] :
                  n \in {0, 640 * 240}}

\* blob frames that announce one blob more than they carry
ShortBlobFrames == {[blob_count |-> Len(bs) + 1, blobs |-> bs] :
                      bs \in UNION {[1..n -> Blobs] : n \in 0..(MaxBlobs - 1)}}

\* the scan of lines 142-149 on a short buffer: indices size..RoiLast are
\* read outside it
PointCloud_Callback_OutOfBounds(cloud) ==
  /\ Dispatching
  /\ cloud.size <= 640 * (180 + 239) + 639
  /\ last' = [op |-> "PointCloud_Callback", in |-> cloud,
              read |-> 640 * (180 + 239) + 639, size |-> cloud.size]
  /\ \/ /\ pc' = "crashed"
        /\ UNCHANGED <<state, flags, published, area_sum>>
     \/ \E garbage \in {0, MaxNear} :
          /\ IF NearCount(cloud) + garbage > 10
             THEN obstacle_found_flag' = TRUE
             ELSE IF ~bumper_flag THEN obstacle_found_flag' = FALSE
                                  ELSE obstacle_found_flag' = obstacle_found_flag
          /\ UNCHANGED <<state, goal_found_flag, bumper_flag, goal_blob_area, goal_x,
                         pc, published, area_sum>>

\* the loop of lines 98-107 on a frame with blob_count = blobs.size() + 1:
\* blobs[blob_count - 1] is read outside the vector
blobsCallBack_OutOfBounds(blobsIn) ==
  /\ Dispatching
  /\ blobsIn.blob_count > Len(blobsIn.blobs)
  /\ last' = [op |-> "blobsCallBack", in |-> blobsIn.blob_count,
              read |-> blobsIn.blob_count - 1, size |-> Len(blobsIn.blobs)]
  /\ \/ \* dies at the read of line 100: the global goal_blob_area holds what
        \* line 92 and the blobs before the missing one have put into it
        /\ pc' = "crashed"
        /\ goal_blob_area' = Cumulate(blobsIn, Len(blobsIn.blobs)).goal_blob_area
        /\ area_sum' = MatchedArea(blobsIn, Len(blobsIn.blobs))
        /\ UNCHANGED <<state, goal_found_flag, obstacle_found_flag, bumper_flag, goal_x,
                       published>>
     \/ \E garbage \in Blobs :
          LET seen == [blob_count |-> blobsIn.blob_count, blobs |-> Append(blobsIn.blobs, garbage)]
              acc  == Cumulate(seen, seen.blob_count)
          IN /\ goal_blob_area' = acc.goal_blob_area
             /\ area_sum' = MatchedArea(seen, seen.blob_count)
             /\ IF acc.goal_blob_area > 3000
                THEN /\ goal_x' = Frac(acc.goal_sum_x - (image_width \div 2) * acc.goal_blob_area,
                                       acc.goal_blob_area)
                     /\ goal_found_flag' = TRUE
                ELSE /\ goal_found_flag' = FALSE
                     /\ goal_x' = goal_x
             /\ UNCHANGED <<state, obstacle_found_flag, bumper_flag, pc, published>>

short_depth_message == \E cloud \in ShortClouds : PointCloud_Callback_OutOfBounds(cloud)

short_blobs_message == \E blobsIn \in ShortBlobFrames : blobsCallBack_OutOfBounds(blobsIn)

NextMalformed ==
  \/ Next
  \/ short_depth_message
  \/ short_blobs_message

SpecMalformed == Init /\ [][NextMalformed]_vars

TypeOK ==
  /\ state \in 0..3
  /\ goal_found_flag \in BOOLEAN
  /\ obstacle_found_flag \in BOOLEAN
  /\ bumper_flag \in BOOLEAN
  /\ goal_blob_area \in 0..(UINT16 - 1)
  /\ goal_x[2] > 0
  /\ pc \in {"switch", "retreat_loop", "rotate_loop", "advance_loop", "advance_only_loop",
            "spinOnce", "crashed"}

\* ------------------------------------------------------------------ claims
\* the switch of the current iteration has run to its break
TickDone == last.op = "tick" /\ pc \in {"spinOnce", "switch"}

\* the number of points of rows 180..419 whose depth is below 0.7
RoiNearPoints(cloud) ==
  Cardinality({p \in cloud.first..(cloud.first + cloud.len - 1) :
                 (p \div 640) \in 180..419 /\ cloud.z < 700000000})

IsMotion(T) == T.linear_x # 0 \/ T.angular_z # 0

\* C1: once state is 3 (Reached) every later step leaves it 3, whatever the
\* callbacks delivered between the ticks.
C1_ReachedAbsorbing == [][state = 3 => state' = 3]_vars

\* a tick that started in Reached after the matched area dropped back to 0
C1_Witness == /\ state = 3
              /\ last.op = "tick"
              /\ last.in.state = 3
              /\ last.in.goal_area = 0
              /\ ~last.in.goal_found

\* C2 (as claimed): a tick that starts in Avoid with the matched area of the
\* last non-empty frame above 30720 ends in Reached and publishes nothing.
C2_AvoidToReached ==
  (last.op = "tick" /\ last.in.state = 2 /\ last.in.area_sum > 30720)
     => (state = 3 /\ published = <<>> /\ pc \in {"spinOnce", "switch"})

\* C3 (as claimed): after blobsCallBack has processed a non-empty frame,
\* goal_found_flag is true exactly when the matched area exceeds 3000.
C3_GoalFoundIffAreaAbove3000 ==
  (last.op = "blobsCallBack" /\ last.in > 0) => (goal_found_flag <=> area_sum > 3000)

\* C4: in every reachable state bumper_flag implies obstacle_found_flag.
C4_BumperImpliesObstacle == bumper_flag => obstacle_found_flag

\* a depth frame with at most 10 near points was processed during contact
C4_Witness == /\ bumper_flag
              /\ obstacle_found_flag
              /\ last.op = "PointCloud_Callback"
              /\ RoiNearPoints(last.in) <= 10

\* C5: a tick that starts in Search with obstacle_found_flag set ends in
\* Avoid, whatever goal_found_flag is (so never in Approach).
C5_SearchObstaclePriority ==
  (last.op = "tick" /\ last.in.state = 0 /\ last.in.obstacle_found) => state = 2

\* Search saw both the obstacle and the goal and went to Avoid
C5_Witness == /\ last.op = "tick"
              /\ last.in.state = 0
              /\ last.in.obstacle_found
              /\ last.in.goal_found
              /\ state = 2

\* C6 (as claimed): every completed tick has published at least one command.
C6_PublishesEveryTick == TickDone => Len(published) >= 1

\* C6 (amended): a completed tick has published a command exactly when it
\* kept the state in Search, Approach or Avoid or ran an Avoid maneuver
\* (Avoid -> Search); ticks that change the state without a maneuver and
\* ticks in Reached publish nothing.
C6_PublishesUnlessTransition ==
  TickDone => ((Len(published) >= 1) <=>
                 \/ (state = last.in.state /\ state # 3)
                 \/ (last.in.state = 2 /\ state = 0))

\* a tick that stayed in Approach and published its one seek
C6_Witness == /\ TickDone
              /\ last.in.state = 1
              /\ state = 1
              /\ Len(published) = 1
              /\ published[1].cmd.by = "seek"

\* C7: while state is 3 (from the tick that entered Reached on) the current
\* iteration has published no command with a non-zero linear_x or angular_z.
C7_NoMotionInReached ==
  state = 3 => \A i \in 1..Len(published) : ~IsMotion(published[i].cmd)

\* a later tick in Reached, with an obstacle and a lost goal in view
C7_Witness == /\ state = 3
              /\ last.op = "tick"
              /\ last.in.state = 3
              /\ last.in.obstacle_found
              /\ last.in.bumper_contact
              /\ published = <<>>

\* C8: a tick that starts in Avoid with goal_blob_area <= 30720 and
\* bumper_flag set publishes 40000 retreats, 40000 rotates and 40000 advances
\* in that order and nothing else, ends in Search, and from the tick's start
\* to the last advance no handler has run and the flags are those the tick
\* started with.
C8_BumperManeuver ==
  LET flagsAsRead == /\ last.op = "tick"
                     /\ goal_found_flag = last.in.goal_found
                     /\ goal_blob_area = last.in.goal_area
                     /\ obstacle_found_flag = last.in.obstacle_found
                     /\ bumper_flag = last.in.bumper_contact
  IN /\ pc \in {"retreat_loop", "rotate_loop", "advance_loop"} => flagsAsRead
     /\ (TickDone /\ last.in.state = 2 /\ last.in.goal_area <= 30720 /\ last.in.bumper_contact)
          => /\ published = << [cmd |-> [by |-> "retreat", linear_x |-> -150, angular_z |-> 0],
                                times |-> 40000],
                               [cmd |-> [by |-> "rotate", linear_x |-> 0, angular_z |-> 700],
                                times |-> 40000],
                               [cmd |-> [by |-> "advance", linear_x |-> 150, angular_z |-> 0],
                                times |-> 40000] >>
             /\ state = 0
             /\ flagsAsRead

\* the bumper maneuver has just finished
C8_Witness == /\ TickDone
              /\ pc = "spinOnce"
              /\ last.in.state = 2
              /\ last.in.bumper_contact
              /\ last.in.goal_area <= 30720
              /\ Len(published) = 3
              /\ state = 0

\* C9: right after PointCloud_Callback, obstacle_found_flag is true exactly
\* when the frame has more than 10 near ROI points or bumper_flag is true.
C9_ObstacleIffNearOrBumper ==
  last.op = "PointCloud_Callback"
     => (obstacle_found_flag <=> (RoiNearPoints(last.in) > 10 \/ bumper_flag))

\* a frame with exactly 10 near points cleared the flag
C9_Witness == /\ last.op = "PointCloud_Callback"
              /\ RoiNearPoints(last.in) = 10
              /\ ~bumper_flag
              /\ ~obstacle_found_flag

\* C10: a released event clears bumper_flag and leaves obstacle_found_flag
\* as it was, and obstacle_found_flag goes from true to false only in a
\* PointCloud_Callback of a frame with at most 10 near points that runs while
\* bumper_flag is false.
C10_ReleaseKeepsObstacle ==
  [][ /\ (last' # last /\ last'.op = "Bumper_Callback" /\ last'.in # 1)
           => (~bumper_flag' /\ obstacle_found_flag' = obstacle_found_flag)
      /\ (obstacle_found_flag /\ ~obstacle_found_flag')
           => (/\ last'.op = "PointCloud_Callback"
               /\ RoiNearPoints(last'.in) <= 10
               /\ ~bumper_flag /\ ~bumper_flag') ]_vars

\* a released event was processed in Avoid and the obstacle flag is still up
C10_Witness == /\ last.op = "Bumper_Callback"
               /\ last.in = 0
               /\ ~bumper_flag
               /\ obstacle_found_flag
               /\ state = 2

\* C11: a step in which blobsCallBack handles a frame with blob_count = 0
\* leaves goal_found_flag, goal_x and goal_blob_area as they were, so any
\* number of such frames has the effect of none.
C11_EmptyFrameNoOp ==
  [][(last'.op = "blobsCallBack" /\ last'.in = 0)
        => UNCHANGED <<goal_found_flag, goal_x, goal_blob_area>>]_vars

\* an empty frame was handled while a goal was in view, and the goal is kept
C11_Witness == /\ last.op = "blobsCallBack"
               /\ last.in = 0
               /\ goal_found_flag
               /\ goal_blob_area > 3000
               /\ goal_x # <<0, 1>>

\* C12: what a tick reads is the result of completed callbacks: the area is
\* the finished accumulation of the last non-empty frame (not the reset
\* value of a frame in progress), the goal flag and the offset belong to
\* that same area, and the obstacle flag is not behind the bumper flag.
C12_ConsistentSnapshot ==
  last.op = "tick"
     => /\ last.in.goal_area = last.in.area_sum % 65536
        /\ last.in.goal_found <=> (last.in.goal_area > 3000)
        /\ last.in.goal_found => (last.in.goal_area % goal_x[2] = 0)
        /\ last.in.bumper_contact => last.in.obstacle_found

\* a tick that read a goal with a fractional offset, during bumper contact
C12_Witness == /\ last.op = "tick"
               /\ last.in.goal_found
               /\ goal_x[2] > 1
               /\ last.in.bumper_contact

\* C16: no step of the switch or of a maneuver changes goal_found_flag,
\* goal_x, goal_blob_area, obstacle_found_flag or bumper_flag, and no step
\* taken while the callbacks are dispatched changes state.
C16_Ownership ==
  [][ /\ pc # "spinOnce" => UNCHANGED <<goal_found_flag, goal_x, goal_blob_area,
                                        obstacle_found_flag, bumper_flag>>
      /\ pc = "spinOnce" => state' = state ]_vars

\* the last loop of a bumper maneuver is about to run, all flags still up
C16_Witness == /\ pc = "advance_loop"
               /\ bumper_flag
               /\ obstacle_found_flag
               /\ goal_found_flag

\* C17: a tick that starts in Approach goes to Avoid without a command if
\* obstacle_found_flag, else to Search without a command if not
\* goal_found_flag, else stays and publishes exactly one seek; so a seek is
\* published only by a tick in Approach with the goal found and no obstacle.
C17_ApproachTick ==
  /\ (TickDone /\ last.in.state = 1)
       => IF last.in.obstacle_found THEN state = 2 /\ published = <<>>
          ELSE IF ~last.in.goal_found THEN state = 0 /\ published = <<>>
          ELSE /\ state = 1
               /\ Len(published) = 1
               /\ published[1].cmd.by = "seek"
               /\ published[1].times = 1
  /\ (last.op = "tick" /\ \E i \in 1..Len(published) : published[i].cmd.by = "seek")
       => (last.in.state = 1 /\ last.in.goal_found /\ ~last.in.obstacle_found)

\* Approach lost the goal while an obstacle came up, and went to Avoid
C17_Witness == /\ TickDone
               /\ last.in.state = 1
               /\ last.in.obstacle_found
               /\ ~last.in.goal_found
               /\ state = 2
               /\ published = <<>>

\* C18: a tick that starts in Avoid with goal_blob_area <= 30720 and no
\* bumper contact publishes exactly one rotate and stays in Avoid if
\* obstacle_found_flag, and otherwise publishes 100000 advances and nothing
\* else and ends in Search; no tick goes from Avoid to Approach.
C18_AvoidWithoutContact ==
  /\ (TickDone /\ last.in.state = 2 /\ last.in.goal_area <= 30720 /\ ~last.in.bumper_contact)
       => IF last.in.obstacle_found
          THEN /\ state = 2
               /\ published = << [cmd |-> [by |-> "rotate", linear_x |-> 0, angular_z |-> 700],
                                  times |-> 1] >>
          ELSE /\ state = 0
               /\ published = << [cmd |-> [by |-> "advance", linear_x |-> 150, angular_z |-> 0],
                                  times |-> 100000] >>
  /\ (last.op = "tick" /\ last.in.state = 2) => state # 1

\* the advance-only maneuver has finished with the goal in view
C18_Witness == /\ TickDone
               /\ last.in.state = 2
               /\ ~last.in.obstacle_found
               /\ ~last.in.bumper_contact
               /\ last.in.goal_found
               /\ state = 0
               /\ Len(published) = 1

\* C19: in every state goal_found_flag is true exactly when the stored
\* goal_blob_area exceeds 3000, and a tick that goes from Avoid to Reached
\* has read goal_found_flag true.
C19_FoundIffStoredArea ==
  /\ goal_found_flag <=> (goal_blob_area > 3000)
  /\ (last.op = "tick" /\ last.in.state = 2 /\ state = 3) => last.in.goal_found

\* Reached was entered, after empty and non-empty frames
C19_Witness == /\ last.op = "tick"
               /\ last.in.state = 2
               /\ state = 3
               /\ goal_found_flag
               /\ goal_blob_area > 30720

\* the snapshot has no obstacle, no contact, a goal and an area <= 30720
Clear(snap) == /\ ~snap.obstacle_found
               /\ ~snap.bumper_contact
               /\ snap.goal_found
               /\ snap.goal_area <= 30720

\* C20: a tick that reads a clear snapshot outside Reached takes Avoid to
\* Search, Search to Approach, and keeps Approach with exactly one seek; so
\* with clear snapshots from some tick on the state is Approach after at
\* most two ticks and every later tick publishes one seek.
C20_ClearPathToApproach ==
  (TickDone /\ last.in.state # 3 /\ Clear(last.in))
     => /\ last.in.state = 2 => state = 0
        /\ last.in.state = 0 => state = 1
        /\ last.in.state = 1 => /\ state = 1
                                /\ Len(published) = 1
                                /\ published[1].cmd.by = "seek"
                                /\ published[1].times = 1

\* Search read a clear snapshot and went to Approach
C20_Witness == /\ TickDone
               /\ Clear(last.in)
               /\ last.in.state = 0
               /\ state = 1

ManeuverPcs == {"retreat_loop", "rotate_loop", "advance_loop", "advance_only_loop"}

\* some sensor callback can run in the current state
CallbackCanRun == ENABLED (blobs_message \/ depth_message \/ bumper_message)

\* C13 (as claimed): while a maneuver of the Avoid state is running, the
\* sensor callbacks are able to run.
C13_CallbacksRunDuringManeuver == pc \in ManeuverPcs => CallbackCanRun

\* C13 (amended): while a maneuver is running no sensor callback can run and
\* the flags are those the tick started with; the callbacks run again in the
\* ros::spinOnce that follows the maneuver's last command.
C13_NoCallbackDuringManeuver ==
  /\ pc \in ManeuverPcs
       => /\ ~CallbackCanRun
          /\ last.op = "tick"
          /\ goal_found_flag = last.in.goal_found
          /\ goal_blob_area = last.in.goal_area
          /\ obstacle_found_flag = last.in.obstacle_found
          /\ bumper_flag = last.in.bumper_contact
  /\ pc = "spinOnce" => CallbackCanRun

\* a bumper maneuver between its retreat and its advance commands
C13_Witness == /\ pc = "rotate_loop"
               /\ Len(published) = 1
               /\ published[1].cmd.by = "retreat"
               /\ ~CallbackCanRun

\* C15: the seek command has linear_x = 0.105; its angular_z is
\* -goal_x * 0.49 when |goal_x * 0.49| <= 0.3 and otherwise 0.3 with the sign
\* of -goal_x, so |angular_z| <= 0.3; goal_x = -50 gives +0.3.
C15_SeekSaturation ==
  (TickDone /\ last.in.state = 1 /\ state = 1)
     => LET num == goal_x[1]
            den == goal_x[2]
            T   == published[1].cmd
        IN /\ Len(published) = 1
           /\ T.by = "seek"
           /\ T.linear_x = 105
           /\ IF Abs(num) * 49 <= 30 * den
              THEN T.angular_z = Trunc(-(num * 490), den)
              ELSE T.angular_z = (IF num < 0 THEN 300 ELSE -300)
           /\ T.angular_z >= -300 /\ T.angular_z <= 300
           /\ goal_x = <<-50, 1>> => T.angular_z = 300

\* seek has run with the goal 50 pixels left of the centre
C15_Witness == /\ TickDone
               /\ state = 1
               /\ goal_x = <<-50, 1>>
               /\ Len(published) = 1
               /\ published[1].cmd.angular_z = 300

\* C14 (as claimed): a callback that is given a depth frame with fewer than
\* 640*480 points, or a BlobFrame that announces more blobs than it carries,
\* reads no index outside the buffer, keeps running, and leaves goal_found_flag,
\* goal_x, goal_blob_area, obstacle_found_flag and bumper_flag as they were.
C14_MalformedFrameDropped ==
  [][(last' # last /\ "size" \in DOMAIN last')
        => /\ last'.read < last'.size
           /\ pc' # "crashed"
           /\ UNCHANGED <<goal_found_flag, goal_x, goal_blob_area,
                          obstacle_found_flag, bumper_flag>>]_vars
====
